---- MODULE Spec2Model ----
(***************************************************************************)
(* Model of the Buffett screener (src/global_buffett_screener.py and its   *)
(* variant src/screener.py): the safe numeric extractor, the three ratio   *)
(* calculators, the per-ticker evaluator process_ticker, the universe      *)
(* aggregator get_all_global_tickers and the orchestrator                  *)
(* run_global_analysis with its thread pool.                               *)
(*                                                                         *)
(* Numbers.  A Python float is modelled as an exact rational n/d (d > 0)   *)
(* or NaN.  Comparisons follow IEEE semantics for NaN (every comparison    *)
(* with NaN is false); round(x, 2) is round-half-to-even on the exact      *)
(* value and yields a rational with denominator 100.                       *)
(***************************************************************************)
EXTENDS Integers, Sequences, FiniteSets, Bags, TLC

VARIABLES
    variant,          \* which source file's constants are in force
    stock,            \* evaluator: the remote responses for the ticker under evaluation
    outcome,          \* evaluator: what process_ticker did and returned
    wiki,             \* aggregator: response of each index page
    clean_tickers,    \* aggregator: the value get_all_global_tickers returned
    frozen,           \* orchestrator: frozen remote response of every ticker
    universe,         \* orchestrator: the deduplicated set behind clean_tickers
    pc,               \* orchestrator: position of the main thread
    run_no,           \* orchestrator: number of the run in progress
    all_tickers,      \* orchestrator: list(set(...)) as returned to run_global_analysis
    tickers_to_scan,  \* orchestrator: all_tickers[:2500]
    next_task,        \* orchestrator: first work item no worker has taken yet
    worker,           \* orchestrator: the work item each pool thread is running (0: idle)
    results,          \* orchestrator: the future of each work item
    reports           \* orchestrator: the reports written so far (data.json contents)

vars == <<variant, stock, outcome, wiki, clean_tickers, frozen, universe, pc, run_no,
          all_tickers, tickers_to_scan, next_task, worker, results, reports>>

evalVars == <<stock, outcome>>
aggVars  == <<wiki, clean_tickers>>
runVars  == <<frozen, universe, pc, run_no, all_tickers, tickers_to_scan, next_task,
              worker, results, reports>>

Variants == {"global_buffett_screener", "screener"}

-----------------------------------------------------------------------------
(* Floats *)

F(n, d) == [nan |-> FALSE, n |-> n, d |-> d]
NaN     == [nan |-> TRUE, n |-> 0, d |-> 1]

Lt(a, b) == ~a.nan /\ ~b.nan /\ a.n * b.d < b.n * a.d
Gt(a, b) == Lt(b, a)
Le(a, b) == ~a.nan /\ ~b.nan /\ a.n * b.d <= b.n * a.d
Ge(a, b) == Le(b, a)
FEq(a, b) == ~a.nan /\ ~b.nan /\ a.n * b.d = b.n * a.d

RECURSIVE Gcd(_, _)
Gcd(a, b) == IF b = 0 THEN a ELSE Gcd(b, a % b)

Abs(n) == IF n < 0 THEN -n ELSE n

\* the rational n/d (d > 0) in lowest terms
Q(n, d) == LET g == Gcd(Abs(n), d) IN F(n \div g, d \div g)

\* a / b for b > 0 (every division of the program is guarded by b > 0)
Div(a, b) == IF a.nan \/ b.nan THEN NaN ELSE Q(a.n * b.d, a.d * b.n)

Times100(a) == IF a.nan THEN NaN ELSE F(a.n * 100, a.d)

\* nearest integer to p/q (q > 0), ties to the even neighbour
RoundHalfEven(p, q) ==
    LET fl == p \div q
        rem == p % q
    IN  IF 2 * rem < q THEN fl
        ELSE IF 2 * rem > q THEN fl + 1
        ELSE IF fl % 2 = 0 THEN fl ELSE fl + 1

\* round(x, 2); NaN rounds to NaN
Round2(a) == IF a.nan THEN NaN ELSE F(RoundHalfEven(a.n * 100, a.d), 100)

\* round(None, 2) raises TypeError
PriceRounds(p) == p.kind = "num"

-----------------------------------------------------------------------------
(* Program constants *)

EXCLUDED_SECTORS_screener ==
    {"Technology", "Biotechnology", "Basic Materials", "Energy", "Oil & Gas", "Mining",
     "Semiconductors", "Aerospace & Defense", "Capital Goods", "Industrials",
     "Real Estate"}

EXCLUDED_SECTORS_global ==
    EXCLUDED_SECTORS_screener \cup {"Telecommunication Services"}

EXCLUDED_SECTORS(v) ==
    IF v = "screener" THEN EXCLUDED_SECTORS_screener ELSE EXCLUDED_SECTORS_global

EXEMPTED_DEBT_SECTORS == {"Financial Services", "Utilities"}

PE_REJECT     == F(9999, 1)
ROE_REJECT    == F(-1, 1)
GPM_REJECT    == F(-1, 1)
DE_REJECT     == F(9999, 1)
DEBT_REJECT   == F(0, 1)
EQUITY_REJECT == F(-1, 1)

PE_MIN  == F(0, 1)
PE_MAX  == F(15, 1)
ROE_MIN == F(15, 100)
GPM_MIN == F(20, 100)
DE_MAX  == F(1, 1)

-----------------------------------------------------------------------------
(* Remote values.                                                          *)
(* A summary-info value is [kind, n]: "absent" (key missing or None),      *)
(* "num" (a number, n thousandths), "numstr" (a string that float()        *)
(* parses, n thousandths), "nan" (a float NaN), "badstr" (a string float()  *)
(* rejects).                                                               *)
(* A statement cell is [kind, n]: "missing" (the lookup raises: table, row *)
(* or column not there), "nan" (the cell is NaN), "num" (the amount n).    *)

Absent       == [kind |-> "absent", n |-> 0]
Num(n)       == [kind |-> "num", n |-> n]
NumStr(n)    == [kind |-> "numstr", n |-> n]
BadStr       == [kind |-> "badstr", n |-> 0]
NanVal       == [kind |-> "nan", n |-> 0]
Missing      == [kind |-> "missing", n |-> 0]
NanCell      == [kind |-> "nan", n |-> 0]
Cell(n)      == [kind |-> "num", n |-> n]

CellFloat(c) == IF c.kind = "nan" THEN NaN ELSE F(c.n, 1)

\* get_safe_float(info, key, reject_value), val being info.get(key)
get_safe_float(val, reject_value) ==
    CASE val.kind = "absent" -> reject_value
      [] val.kind = "num"    -> Q(val.n, 1000)
      [] val.kind = "numstr" -> Q(val.n, 1000)
      [] val.kind = "nan"    -> NaN
      [] OTHER               -> reject_value

\* calculate_roe(stock)
calculate_roe(s) ==
    IF s.net_income.kind = "missing" \/ s.total_equity.kind = "missing"
    THEN ROE_REJECT
    ELSE IF Gt(CellFloat(s.total_equity), F(0, 1))
         THEN Div(CellFloat(s.net_income), CellFloat(s.total_equity))
         ELSE ROE_REJECT

\* calculate_gpm(stock)
calculate_gpm(s) ==
    IF s.gross_profit.kind = "missing" \/ s.total_revenue.kind = "missing"
    THEN GPM_REJECT
    ELSE IF Gt(CellFloat(s.total_revenue), F(0, 1))
         THEN Div(CellFloat(s.gross_profit), CellFloat(s.total_revenue))
         ELSE GPM_REJECT

\* stock.info read a second time, inside calculate_de_ratio's handler
InfoReadableAgain(s) == s.info_access = "ok"

\* calculate_de_ratio(stock): [raised, val]
calculate_de_ratio(s) ==
    IF s.total_debt.kind # "missing" /\ s.total_equity.kind # "missing"
    THEN [raised |-> FALSE,
          val |-> IF Gt(CellFloat(s.total_equity), F(0, 1))
                  THEN Div(CellFloat(s.total_debt), CellFloat(s.total_equity))
                  ELSE DE_REJECT]
    ELSE IF ~InfoReadableAgain(s)
         THEN [raised |-> TRUE, val |-> NaN]
         ELSE LET total_debt   == get_safe_float(s.totalDebt, DEBT_REJECT)
                  total_equity == get_safe_float(s.totalStockholderEquity, EQUITY_REJECT)
              IN  [raised |-> FALSE,
                   val |-> IF Gt(total_equity, F(0, 1))
                           THEN Div(total_debt, total_equity)
                           ELSE DE_REJECT]

-----------------------------------------------------------------------------
(* process_ticker *)

\* info.get(key, default) for a string field kept as <<>> (absent) or <<value>>
GetOr(field, default) == IF field = <<>> THEN default ELSE field[1]

\* mutant: the blocklist of the other variant is consulted
IsExcluded_stale_list(sector, v) == sector \in EXCLUDED_SECTORS_screener

IsExcluded(sector, v) == sector \in EXCLUDED_SECTORS(v)

\* mutant: the upper bound of the valuation filter is inclusive
is_pe_ok_inclusive(pe_val) == Lt(PE_MIN, pe_val) /\ Le(pe_val, PE_MAX)

\* mutant: the debt filter ignores the sector exemption
is_de_ok_no_exemption(de_val, sector) == Lt(de_val, DE_MAX)

is_pe_ok(pe_val)       == Lt(PE_MIN, pe_val) /\ Lt(pe_val, PE_MAX)
is_roe_ok(roe_val)     == Gt(roe_val, ROE_MIN)
is_gpm_ok(gpm_val)     == Gt(gpm_val, GPM_MIN)
is_de_ok(de_val, sector) == Lt(de_val, DE_MAX) \/ sector \in EXEMPTED_DEBT_SECTORS

\* the tag, an f-string, as the sequence of its parts (the accent of the
\* source's "adaptee" is dropped)
PlainTag == <<"Valeur d'Or">>
AnnotatedTag(sector) == <<"Valeur d'Or (Dette adaptee : ", sector, ")">>

\* mutant: the annotated tag is kept for passes that needed the exemption
Tag_only_when_needed(sector, de_val) ==
    IF sector \in EXEMPTED_DEBT_SECTORS /\ ~Lt(de_val, DE_MAX)
    THEN AnnotatedTag(sector) ELSE PlainTag

Tag(sector, de_val) ==
    IF sector \in EXEMPTED_DEBT_SECTORS THEN AnnotatedTag(sector) ELSE PlainTag

MatchRecord(ticker, s, sector, pe_val, roe_val, gpm_val, de_val) ==
    [symbol   |-> ticker,
     name     |-> GetOr(s.longName, ticker),
     sector   |-> sector,
     pe       |-> Round2(pe_val),
     roe      |-> Round2(Times100(roe_val)),
     gpm      |-> Round2(Times100(gpm_val)),
     de_ratio |-> Round2(de_val),
     price    |-> Round2(Q(s.price.n, 1000)),
     currency |-> GetOr(s.currency, "USD"),
     tag      |-> Tag(sector, de_val)]

\* What one call did: the steps it reached (trace), the value it returned
\* (<<>> for None, <<record>> for a match), the step that raised ("" if none)
\* and the local variables it had computed (NaN where it had not).
Returned(result, trace, raised, sector, pe_val, roe_val, gpm_val, de_val) ==
    [done |-> TRUE, result |-> result, trace |-> trace, raised |-> raised,
     sector |-> sector, pe_val |-> pe_val, roe_val |-> roe_val, gpm_val |-> gpm_val,
     de_val |-> de_val]

NotRun ==
    [done |-> FALSE, result |-> <<>>, trace |-> <<>>, raised |-> "",
     sector |-> "", pe_val |-> NaN, roe_val |-> NaN, gpm_val |-> NaN, de_val |-> NaN]

process_ticker(ticker, s, v) ==
    IF s.info_access = "fail"
    THEN Returned(<<>>, <<"info">>, "info", "", NaN, NaN, NaN, NaN)
    ELSE IF s.price.kind = "raise"
    THEN Returned(<<>>, <<"info", "last_price">>, "last_price", "", NaN, NaN, NaN, NaN)
    ELSE
    LET sector == GetOr(s.sector, "N/A") IN
    IF IsExcluded(sector, v)
    THEN Returned(<<>>, <<"info", "last_price", "sector">>, "", sector,
                  NaN, NaN, NaN, NaN)
    ELSE
    LET pe_val  == get_safe_float(s.trailingPE, PE_REJECT)
        roe_val == calculate_roe(s)
        gpm_val == calculate_gpm(s)
        de      == calculate_de_ratio(s)
        de_val  == de.val
        ratios  == <<"info", "last_price", "sector", "get_safe_float",
                     "calculate_roe", "calculate_gpm", "calculate_de_ratio">>
    IN
    IF de.raised
    THEN Returned(<<>>, ratios, "calculate_de_ratio", sector, pe_val, roe_val, gpm_val, NaN)
    ELSE IF is_pe_ok(pe_val) /\ is_roe_ok(roe_val) /\ is_gpm_ok(gpm_val)
            /\ is_de_ok(de_val, sector)
    THEN IF PriceRounds(s.price)
         THEN Returned(<<MatchRecord(ticker, s, sector, pe_val, roe_val, gpm_val, de_val)>>,
                       ratios \o <<"filters", "record">>, "", sector,
                       pe_val, roe_val, gpm_val, de_val)
         ELSE Returned(<<>>, ratios \o <<"filters", "record">>, "round", sector,
                       pe_val, roe_val, gpm_val, de_val)
    ELSE Returned(<<>>, ratios \o <<"filters">>, "", sector,
                  pe_val, roe_val, gpm_val, de_val)

-----------------------------------------------------------------------------
(* Evaluator specification: one call of process_ticker on every combination *)
(* of remote responses drawn from the sets below.                           *)

EvalTicker == "TCK"

\* stock.info: "fail" (the first read raises), "ok" (every read succeeds),
\* "ok_then_fail" (the read of line 120 succeeds, a later read raises)
InfoAccesses == {"fail", "ok", "ok_then_fail"}

\* stock.fast_info.last_price: the read raises, yields None, or a number (thousandths)
Prices == {[kind |-> "raise", n |-> 0], [kind |-> "none", n |-> 0],
           [kind |-> "num", n |-> 12345]}

Sectors == {<<>>, <<"Technology">>, <<"Telecommunication Services">>,
            <<"Financial Services">>, <<"Consumer Defensive">>}

\* trailingPE, in thousandths: on and next to both ends of the open interval (0, 15)
TrailingPEs == {Absent, BadStr, NanVal, NumStr(10000), Num(0), Num(1), Num(14999),
                Num(15000)}

NetIncomes     == {Missing, Cell(15), Cell(16)}
TotalEquities  == {Missing, Cell(-100), Cell(0), Cell(100)}
GrossProfits   == {Missing, Cell(20), Cell(21)}
TotalRevenues  == {Missing, Cell(0), Cell(100)}
TotalDebts     == {Missing, NanCell, Cell(99), Cell(100)}
InfoDebts      == {Absent, Num(100000)}
InfoEquities   == {Absent, Num(0), Num(100000)}

StockInputs ==
    [info_access: InfoAccesses, price: Prices, sector: Sectors, longName: {<<>>},
     currency: {<<>>}, trailingPE: TrailingPEs, net_income: NetIncomes,
     total_equity: TotalEquities, gross_profit: GrossProfits,
     total_revenue: TotalRevenues, total_debt: TotalDebts, totalDebt: InfoDebts,
     totalStockholderEquity: InfoEquities]

NoStock == CHOOSE s \in StockInputs : TRUE

AggIdle == /\ wiki = <<>>
           /\ clean_tickers = [returned |-> FALSE, raised |-> FALSE, tickers |-> <<>>]

RunIdle == /\ frozen = <<>>
           /\ universe = {}
           /\ pc = "off"
           /\ run_no = 0
           /\ all_tickers = <<>>
           /\ tickers_to_scan = <<>>
           /\ next_task = 0
           /\ worker = <<>>
           /\ results = <<>>
           /\ reports = <<>>

InitEval ==
    /\ variant \in Variants
    /\ stock \in StockInputs
    /\ outcome = NotRun
    /\ AggIdle
    /\ RunIdle

ProcessTicker ==
    /\ pc = "off"
    /\ wiki = <<>>
    /\ ~outcome.done
    /\ outcome' = process_ticker(EvalTicker, stock, variant)
    /\ UNCHANGED <<variant, stock, aggVars, runVars>>

NextEval == ProcessTicker

SpecEval == InitEval /\ [][NextEval]_vars

-----------------------------------------------------------------------------
(* Properties of the evaluator *)

Evaluated     == outcome.done
Matched       == outcome.result # <<>>
InfoFetched   == stock.info_access # "fail"
FetchedSector == GetOr(stock.sector, "N/A")
RatioSteps    == {"get_safe_float", "calculate_roe", "calculate_gpm",
                  "calculate_de_ratio"}
Reached(step) == \E i \in 1..Len(outcome.trace) : outcome.trace[i] = step

\* the metrics of the ticker under evaluation
StockPE  == get_safe_float(stock.trailingPE, PE_REJECT)
StockROE == calculate_roe(stock)
StockGPM == calculate_gpm(stock)

ThreePredicatesHold ==
    /\ Lt(F(0, 1), StockPE) /\ Lt(StockPE, F(15, 1))
    /\ Gt(StockROE, F(15, 100))
    /\ Gt(StockGPM, F(20, 100))

ExemptNotExcluded ==
    /\ FetchedSector \in EXEMPTED_DEBT_SECTORS
    /\ FetchedSector \notin EXCLUDED_SECTORS(variant)

\* C1: a ticker whose fetched sector is excluded yields None, whatever its
\* ratios, and none of the ratio computations has been performed.
C1_ExcludedShortCircuit ==
    (Evaluated /\ InfoFetched /\ FetchedSector \in EXCLUDED_SECTORS(variant))
        => /\ ~Matched
           /\ \A step \in RatioSteps : ~Reached(step)

\* C1 witness: an excluded ticker whose four ratios would all pass was evaluated
C1_Witness ==
    /\ Evaluated /\ stock.info_access = "ok" /\ stock.price.kind = "num"
    /\ FetchedSector = "Telecommunication Services"
    /\ variant = "global_buffett_screener"
    /\ ThreePredicatesHold
    /\ stock.total_debt = Cell(99)
    /\ Reached("sector")

\* C2 as stated: in a debt-exempted, non-excluded sector a match record is
\* returned if and only if the three other predicates hold.
C2_Original ==
    (Evaluated /\ InfoFetched /\ ExemptNotExcluded)
        => (Matched <=> ThreePredicatesHold)

\* C2 amended: in a debt-exempted, non-excluded sector an evaluation in which
\* no step raises returns a match record if and only if the three other
\* predicates hold, whatever the debt/equity ratio; an evaluation in which a
\* step raises returns None.
C2_ExemptIffThree ==
    (Evaluated /\ InfoFetched /\ ExemptNotExcluded)
        => /\ outcome.raised = "" => (Matched <=> ThreePredicatesHold)
           /\ outcome.raised # "" => ~Matched

\* C2 witness: an exempted ticker with debt/equity >= 1.0 produced a match
C2_Witness ==
    /\ Evaluated /\ ExemptNotExcluded /\ Matched
    /\ Ge(outcome.de_val, F(1, 1))

OnBoundary ==
    \/ FEq(outcome.pe_val, F(15, 1))
    \/ FEq(outcome.pe_val, F(0, 1))
    \/ FEq(outcome.roe_val, F(15, 100))
    \/ FEq(outcome.gpm_val, F(20, 100))
    \/ /\ outcome.sector \notin EXEMPTED_DEBT_SECTORS
       /\ FEq(outcome.de_val, F(1, 1))

InsideAllBounds ==
    /\ Reached("filters")
    /\ Lt(F(0, 1), outcome.pe_val) /\ Lt(outcome.pe_val, F(15, 1))
    /\ Gt(outcome.roe_val, F(15, 100))
    /\ Gt(outcome.gpm_val, F(20, 100))
    /\ \/ Lt(outcome.de_val, F(1, 1))
       \/ outcome.sector \in EXEMPTED_DEBT_SECTORS

NotNumeric(val) == val.kind \in {"absent", "badstr"}
NotPositive(val) == val.kind \in {"num", "numstr"} /\ val.n <= 0
CellUnusable(c) == c.kind = "missing"
CellNotPositive(c) == c.kind = "num" /\ c.n <= 0

StatementPath == ~CellUnusable(stock.total_debt) /\ ~CellUnusable(stock.total_equity)

\* C4 as stated: a match record carries the annotated tag exactly when the
\* sector is exempted and debt/equity is not below 1.0, the plain tag otherwise
\* (stated for tickers whose debt/equity comes from the balance sheet).
C4_Original ==
    (Evaluated /\ Matched /\ StatementPath)
        => LET r == outcome.result[1]
               relied == /\ r.sector \in EXEMPTED_DEBT_SECTORS
                         /\ ~Lt(outcome.de_val, F(1, 1))
           IN  r.tag = IF relied THEN AnnotatedTag(r.sector) ELSE PlainTag

\* C4 amended: a match record carries the annotated tag naming its sector
\* exactly when the sector is in the debt-exempted set, whatever its
\* debt/equity ratio is; a match in any other sector carries the plain tag.
C4_TagBySector ==
    (Evaluated /\ Matched)
        => LET r == outcome.result[1]
           IN  r.tag = IF r.sector \in {"Financial Services", "Utilities"}
                       THEN <<"Valeur d'Or (Dette adaptee : ", r.sector, ")">>
                       ELSE <<"Valeur d'Or">>

\* C4 witness: an exempted ticker with debt/equity below 1.0 produced a match
C4_Witness ==
    /\ Evaluated /\ Matched /\ StatementPath
    /\ outcome.sector = "Financial Services"
    /\ Lt(outcome.de_val, F(1, 1))

\* a source value behind one of the four metrics is missing, non-numeric, or a
\* zero or negative denominator
SomeInputMissing ==
    \/ NotNumeric(stock.trailingPE)
    \/ CellUnusable(stock.net_income) \/ CellUnusable(stock.total_equity)
    \/ CellNotPositive(stock.total_equity)
    \/ CellUnusable(stock.gross_profit) \/ CellUnusable(stock.total_revenue)
    \/ CellNotPositive(stock.total_revenue)
    \/ /\ ~StatementPath
       /\ \/ NotNumeric(stock.totalDebt)
          \/ NotNumeric(stock.totalStockholderEquity)
          \/ NotPositive(stock.totalStockholderEquity)

\* C8: a ticker of a non-exempt sector with a missing, non-numeric or
\* non-positive-denominator input behind any of its four metrics never
\* produces a match record.
C8_MissingInputRejects ==
    (Evaluated /\ InfoFetched /\ FetchedSector \notin EXEMPTED_DEBT_SECTORS
       /\ SomeInputMissing)
        => ~Matched

\* C9: the ratio calculators never propagate an error and return their
\* sentinels: -1.0 from calculate_roe and calculate_gpm on a failed lookup or a
\* non-positive denominator; from calculate_de_ratio the statement ratio, else
\* the summary-info ratio, else 9999.0, also when the summary info is unavailable.
C9_CalculatorsTotal ==
    (Evaluated /\ Reached("calculate_de_ratio"))
        => /\ outcome.raised # "calculate_de_ratio"
           /\ (CellUnusable(stock.net_income) \/ CellUnusable(stock.total_equity)
                 \/ CellNotPositive(stock.total_equity))
                => outcome.roe_val = F(-1, 1)
           /\ (CellUnusable(stock.gross_profit) \/ CellUnusable(stock.total_revenue)
                 \/ CellNotPositive(stock.total_revenue))
                => outcome.gpm_val = F(-1, 1)
           /\ (StatementPath /\ stock.total_equity.kind = "num"
                 /\ stock.total_equity.n > 0 /\ stock.total_debt.kind = "num")
                => FEq(outcome.de_val, F(stock.total_debt.n, stock.total_equity.n))
           /\ (StatementPath /\ CellNotPositive(stock.total_equity))
                => outcome.de_val = F(9999, 1)
           /\ (~StatementPath /\ stock.info_access = "ok"
                 /\ stock.totalDebt.kind = "num"
                 /\ stock.totalStockholderEquity.kind = "num"
                 /\ stock.totalStockholderEquity.n > 0)
                => FEq(outcome.de_val,
                       F(stock.totalDebt.n, stock.totalStockholderEquity.n))
           /\ (~StatementPath
                 /\ (stock.info_access # "ok"
                       \/ NotNumeric(stock.totalStockholderEquity)
                       \/ NotPositive(stock.totalStockholderEquity)))
                => outcome.de_val = F(9999, 1)

-----------------------------------------------------------------------------
(* Universe aggregator.                                                     *)
(* A symbol is the sequence of its pieces, the separators "." and "-" being *)
(* pieces of their own: "BRK.B" is <<"BRK", ".", "B">>.  Two symbols are    *)
(* the same string exactly when they are the same sequence.                 *)

Sym1(a)       == <<a>>
SymDot(a, b)  == <<a, ".", b>>
SymDash(a, b) == <<a, "-", b>>

\* a cell of the symbol column: a string, or a float NaN (an empty cell)
StrCell(sym) == [str |-> TRUE, sym |-> sym]
NanSymCell   == [str |-> FALSE, sym |-> <<>>]

\* the five index pages, in the order they are scraped
WIKI_SOURCES ==
    << [page |-> "List_of_S%26P_500_companies", table_index |-> 0,
        symbol_col |-> "Symbol", suffix |-> <<>>],
       [page |-> "Nasdaq-100", table_index |-> 4,
        symbol_col |-> "Symbol", suffix |-> <<>>],
       [page |-> "CAC_40", table_index |-> 4,
        symbol_col |-> "Ticker", suffix |-> <<".", "PA">>],
       [page |-> "DAX", table_index |-> 4,
        symbol_col |-> "Ticker", suffix |-> <<".", "DE">>],
       [page |-> "FTSE_100_Index", table_index |-> 4,
        symbol_col |-> "Ticker", suffix |-> <<".", "L">>] >>

MANUAL_TICKERS_global ==
    << <<"7203", ".", "T">>, <<"6758", ".", "T">>, <<"9984", ".", "T">>,
       <<"6861", ".", "T">>, <<"8306", ".", "T">>, <<"9432", ".", "T">>,
       <<"7974", ".", "T">>, <<"NESN", ".", "SW">>, <<"NOVN", ".", "SW">>,
       <<"ROG", ".", "SW">>, <<"UBSG", ".", "SW">>, <<"ZURN", ".", "SW">>,
       <<"RY", ".", "TO">>, <<"TD", ".", "TO">>, <<"ENB", ".", "TO">>,
       <<"BHP", ".", "AX">>, <<"CBA", ".", "AX">>, <<"CSL", ".", "AX">>,
       <<"WBC", ".", "AX">>, <<"0700", ".", "HK">>, <<"9988", ".", "HK">>,
       <<"1299", ".", "HK">> >>

MANUAL_TICKERS_screener ==
    << <<"7203", ".", "T">>, <<"6758", ".", "T">>, <<"9984", ".", "T">>,
       <<"6861", ".", "T">>, <<"8306", ".", "T">>, <<"9432", ".", "T">>,
       <<"7974", ".", "T">>, <<"NESN", ".", "SW">>, <<"NOVN", ".", "SW">>,
       <<"ROG", ".", "SW">>, <<"UBSG", ".", "SW">>, <<"ZURN", ".", "SW">>,
       <<"RY", ".", "TO">>, <<"TD", ".", "TO">>, <<"ENB", ".", "TO">>,
       <<"SHOP", ".", "TO">>, <<"BHP", ".", "AX">>, <<"CBA", ".", "AX">>,
       <<"CSL", ".", "AX">>, <<"WBC", ".", "AX">>, <<"0700", ".", "HK">>,
       <<"9988", ".", "HK">>, <<"1299", ".", "HK">> >>

MANUAL_TICKERS(v) ==
    IF v = "screener" THEN MANUAL_TICKERS_screener ELSE MANUAL_TICKERS_global

\* t.replace('.', '-')
ReplaceDots(sym) == [i \in 1..Len(sym) |-> IF sym[i] = "." THEN "-" ELSE sym[i]]

\* mutant: the separator is left as it is
Normalize_keep_dots(sym, suffix) == sym \o suffix

\* t.replace('.', '-') + suffix
Normalize(sym, suffix) == ReplaceDots(sym) \o suffix

\* pd.read_html(url)[table_index] and df[symbol_col] succeed, and every cell
\* of the column is a string
ScrapeSucceeds(resp, table_index, symbol_col) ==
    /\ resp.reachable
    /\ table_index < resp.n_tables
    /\ symbol_col = resp.column
    /\ \A i \in 1..Len(resp.cells) : resp.cells[i].str

\* mutant: only a missing column is caught, anything else propagates
get_tickers_from_wiki_narrow_except(resp, table_index, symbol_col, suffix) ==
    IF ScrapeSucceeds(resp, table_index, symbol_col)
    THEN [raised |-> FALSE,
          val |-> [i \in 1..Len(resp.cells) |-> Normalize(resp.cells[i].sym, suffix)]]
    ELSE [raised |-> ~(resp.reachable /\ table_index < resp.n_tables), val |-> <<>>]

\* get_tickers_from_wiki(url, table_index, symbol_col, suffix): [raised, val]
get_tickers_from_wiki(resp, table_index, symbol_col, suffix) ==
    IF ScrapeSucceeds(resp, table_index, symbol_col)
    THEN [raised |-> FALSE,
          val |-> [i \in 1..Len(resp.cells) |-> Normalize(resp.cells[i].sym, suffix)]]
    ELSE [raised |-> FALSE, val |-> <<>>]

Scrape(w, i) ==
    get_tickers_from_wiki(w[i], WIKI_SOURCES[i].table_index, WIKI_SOURCES[i].symbol_col,
                          WIKI_SOURCES[i].suffix)

\* filter(None, all_tickers): the empty string is dropped
FilterNone(seq) == SelectSeq(seq, LAMBDA sym : sym # <<>>)

RECURSIVE SeqToBag(_)
SeqToBag(seq) ==
    IF seq = <<>> THEN EmptyBag
    ELSE SeqToBag(Tail(seq)) (+) SetToBag({Head(seq)})

\* mutant: the list is cleaned but not deduplicated
CleanTickers_no_dedup(all) == SeqToBag(FilterNone(all))

\* list(set(filter(None, all_tickers))), as the bag of the list's elements
CleanTickers(all) ==
    LET kept == FilterNone(all)
    IN  SetToBag({kept[i] : i \in 1..Len(kept)})

NotAggregated == [returned |-> FALSE, raised |-> FALSE, tickers |-> EmptyBag]

\* get_all_global_tickers()
get_all_global_tickers(w, v) ==
    LET scraped == [i \in 1..Len(WIKI_SOURCES) |-> Scrape(w, i)]
        all == scraped[1].val \o scraped[2].val \o scraped[3].val \o scraped[4].val
               \o scraped[5].val \o MANUAL_TICKERS(v)
    IN  IF \E i \in 1..Len(WIKI_SOURCES) : scraped[i].raised
        THEN [returned |-> FALSE, raised |-> TRUE, tickers |-> EmptyBag]
        ELSE [returned |-> TRUE, raised |-> FALSE, tickers |-> CleanTickers(all)]

(* Aggregator specification: one call of get_all_global_tickers on every    *)
(* combination of the page responses below.                                 *)

PageResponses ==
    { [reachable |-> FALSE, n_tables |-> 0, column |-> "Symbol", cells |-> <<>>],
      [reachable |-> TRUE, n_tables |-> 1, column |-> "Symbol",
       cells |-> <<StrCell(SymDot("BRK", "B")), StrCell(Sym1("AAPL"))>>],
      [reachable |-> TRUE, n_tables |-> 5, column |-> "Symbol",
       cells |-> <<StrCell(SymDash("BRK", "B")), StrCell(SymDot("BRK", "B")),
                   StrCell(SymDot("RY", "TO"))>>],
      [reachable |-> TRUE, n_tables |-> 5, column |-> "Symbol",
       cells |-> <<StrCell(Sym1("AAPL")), NanSymCell>>],
      [reachable |-> TRUE, n_tables |-> 5, column |-> "Ticker",
       cells |-> <<StrCell(Sym1("MC")), StrCell(SymDot("BRK", "B"))>>],
      [reachable |-> TRUE, n_tables |-> 5, column |-> "Ticker",
       cells |-> <<StrCell(Sym1("AIR")), StrCell(Sym1("MC")), StrCell(Sym1("AIR"))>>],
      [reachable |-> TRUE, n_tables |-> 5, column |-> "Ticker", cells |-> <<>>] }

EvalIdle == /\ stock = NoStock
            /\ outcome = NotRun

InitAgg ==
    /\ variant \in Variants
    /\ wiki \in [1..Len(WIKI_SOURCES) -> PageResponses]
    /\ clean_tickers = NotAggregated
    /\ EvalIdle
    /\ RunIdle

GetAllGlobalTickers ==
    /\ wiki # <<>>
    /\ pc = "off"
    /\ clean_tickers = NotAggregated
    /\ clean_tickers' = get_all_global_tickers(wiki, variant)
    /\ UNCHANGED <<variant, wiki, evalVars, runVars>>

NextAgg == GetAllGlobalTickers

SpecAgg == InitAgg /\ [][NextAgg]_vars

\* the symbols a page contributes: its normalized column when the scrape succeeds
Contribution(i) ==
    LET src == WIKI_SOURCES[i]
        resp == wiki[i]
        ok == /\ resp.reachable
              /\ src.table_index < resp.n_tables
              /\ src.symbol_col = resp.column
              /\ \A k \in 1..Len(resp.cells) : resp.cells[k].str
    IN  IF ok
        THEN {[k \in 1..Len(resp.cells[j].sym) + Len(src.suffix) |->
                 IF k > Len(resp.cells[j].sym)
                 THEN src.suffix[k - Len(resp.cells[j].sym)]
                 ELSE IF resp.cells[j].sym[k] = "." THEN "-" ELSE resp.cells[j].sym[k]]
              : j \in 1..Len(resp.cells)}
        ELSE {}

ManualSet == {MANUAL_TICKERS(variant)[i] : i \in 1..Len(MANUAL_TICKERS(variant))}

\* C7: get_all_global_tickers always returns, and returns exactly the union
\* of the normalized symbols of the pages that succeeded and the manual list,
\* each identifier once, whichever pages fail.
C7_UnionOnce ==
    wiki # <<>> /\ clean_tickers # NotAggregated
        => /\ clean_tickers.returned /\ ~clean_tickers.raised
           /\ BagToSet(clean_tickers.tickers)
                = UNION {Contribution(i) : i \in 1..Len(WIKI_SOURCES)} \cup ManualSet
           /\ \A sym \in BagToSet(clean_tickers.tickers) :
                  CopiesIn(sym, clean_tickers.tickers) = 1

\* C7 witness: one page failed, two pages that succeeded contributed BRK.B and
\* BRK-B, and the aggregation returned
C7_Witness ==
    /\ wiki # <<>> /\ clean_tickers.returned
    /\ ~wiki[3].reachable
    /\ SymDash("BRK", "B") \in Contribution(1)
    /\ SymDash("BRK", "B") \in Contribution(2)
    /\ wiki[1] # wiki[2]
    /\ Contribution(4) = {}

-----------------------------------------------------------------------------
(* Orchestrator: run_global_analysis and its ThreadPoolExecutor.            *)
(* The model is scaled: the universe holds at most NumTickers tickers, the  *)
(* scan keeps the first ScanCap of them (2500 in the program) and the pool  *)
(* has MaxWorkers threads (10 in the program).                              *)

NumTickers == 3
ScanCap    == 2
MaxWorkers == 2

TickerPool == <<"AAA", "BBB", "CCC", "DDD", "EEE">>
Tickers    == {TickerPool[i] : i \in 1..NumTickers}
Workers    == 1..MaxWorkers

\* frozen remote responses: three tickers that pass the four filters (two of
\* them with a P/E that rounds to 10.0) and one whose summary info cannot be read
PassingStock(pe) ==
    [info_access |-> "ok", price |-> [kind |-> "num", n |-> 12345],
     sector |-> <<"Consumer Defensive">>, longName |-> <<>>, currency |-> <<"EUR">>,
     trailingPE |-> Num(pe), net_income |-> Cell(16), total_equity |-> Cell(100),
     gross_profit |-> Cell(21), total_revenue |-> Cell(100), total_debt |-> Cell(99),
     totalDebt |-> Absent, totalStockholderEquity |-> Absent]

FaultyStock == [PassingStock(5000) EXCEPT !.info_access = "fail"]

FrozenResponses ==
    {PassingStock(8000), PassingStock(9996), PassingStock(10004), FaultyStock}

\* list(s) for a set s: any enumeration of its elements, each once
ListsOfSet(S) ==
    {seq \in [1..Cardinality(S) -> S] : \A i, j \in 1..Cardinality(S) :
                                            seq[i] = seq[j] => i = j}

Min(a, b) == IF a <= b THEN a ELSE b

\* lst[:cap]
Truncate(lst, cap) == SubSeq(lst, 1, Min(Len(lst), cap))

\* a future of the pool: queued, running or done, with the value it holds,
\* the number of times its ticker was evaluated and its rank of completion
Queued == [state |-> "queued", value |-> <<>>, evals |-> 0, rank |-> 0]

AllDone == \A i \in 1..Len(results) : results[i].state = "done"

NumDone == Cardinality({i \in 1..Len(results) : results[i].state = "done"})

\* mutant: equal keys are placed before the records already there
InsertByPE_unstable(sorted, r) ==
    LET before == SelectSeq(sorted, LAMBDA x : Lt(x.pe, r.pe))
        after  == SelectSeq(sorted, LAMBDA x : ~Lt(x.pe, r.pe))
    IN  before \o <<r>> \o after

\* one step of list.sort(key=lambda x: x['pe']) on an already sorted prefix:
\* r goes after every record whose key is not greater
InsertByPE(sorted, r) ==
    LET before == SelectSeq(sorted, LAMBDA x : ~Lt(r.pe, x.pe))
        after  == SelectSeq(sorted, LAMBDA x : Lt(r.pe, x.pe))
    IN  before \o <<r>> \o after

RECURSIVE SortByPE(_)
SortByPE(lst) ==
    IF lst = <<>> THEN <<>>
    ELSE InsertByPE(SortByPE(SubSeq(lst, 1, Len(lst) - 1)), lst[Len(lst)])

\* [r for r in results if r is not None], results being the futures' values
NotNone(res) ==
    LET vals == [i \in 1..Len(res) |-> res[i].value]
        kept == SelectSeq(vals, LAMBDA v : v # <<>>)
    IN  [i \in 1..Len(kept) |-> kept[i][1]]

\* final_data
FinalData(res, now) ==
    LET undervalued_stocks == SortByPE(NotNone(res))
    IN  [last_updated |-> now, count |-> Len(undervalued_stocks),
         data |-> undervalued_stocks]

\* run_global_analysis is the same in both files, and no frozen response is in
\* a sector on which their blocklists differ
InitRun ==
    /\ variant = "global_buffett_screener"
    \* every universe of the model, the empty one included: run_global_analysis
    \* takes whatever list get_all_global_tickers returns
    /\ universe \in SUBSET Tickers
    /\ frozen \in [universe -> FrozenResponses]
    /\ pc = "start"
    /\ run_no = 1
    /\ all_tickers = <<>>
    /\ tickers_to_scan = <<>>
    /\ next_task = 1
    /\ worker = [w \in Workers |-> 0]
    /\ results = <<>>
    /\ reports = <<>>
    /\ EvalIdle
    /\ AggIdle

\* lines 180-189: the universe is listed, truncated, and every ticker of the
\* scan is submitted to the pool
StartRun ==
    /\ pc = "start"
    /\ \E lst \in ListsOfSet(universe) :
          /\ all_tickers' = lst
          /\ tickers_to_scan' = Truncate(lst, ScanCap)
          /\ results' = [i \in 1..Len(Truncate(lst, ScanCap)) |-> Queued]
    /\ next_task' = 1
    /\ pc' = "scan"
    /\ UNCHANGED <<variant, evalVars, aggVars, frozen, universe, run_no, worker, reports>>

\* an idle pool thread takes the oldest work item of the queue
TakeTask(w) ==
    /\ pc = "scan"
    /\ worker[w] = 0
    /\ next_task <= Len(tickers_to_scan)
    /\ worker' = [worker EXCEPT ![w] = next_task]
    /\ results' = [results EXCEPT ![next_task].state = "running"]
    /\ next_task' = next_task + 1
    /\ UNCHANGED <<variant, evalVars, aggVars, frozen, universe, pc, run_no, all_tickers,
                   tickers_to_scan, reports>>

\* process_ticker on every ticker and frozen response of the model, tabulated
ProcessTickerTable ==
    [v \in Variants |-> [t \in Tickers |-> [s \in FrozenResponses |->
        process_ticker(t, s, v)]]]

\* the value process_ticker returns for a ticker of the scan
Evaluate(ticker) == ProcessTickerTable[variant][ticker][frozen[ticker]].result

\* the thread's call of process_ticker returns and sets the future
FinishTask(w) ==
    /\ pc = "scan"
    /\ worker[w] # 0
    /\ results' = [results EXCEPT ![worker[w]] =
                     [state |-> "done", value |-> Evaluate(tickers_to_scan[worker[w]]),
                      evals |-> results[worker[w]].evals + 1, rank |-> NumDone + 1]]
    /\ worker' = [worker EXCEPT ![w] = 0]
    /\ UNCHANGED <<variant, evalVars, aggVars, frozen, universe, pc, run_no, all_tickers,
                   tickers_to_scan, next_task, reports>>

\* mutant: the main thread does not wait for the futures still queued or running
ResultsCollected_no_wait == TRUE

\* list(executor.map(...)) has returned and the with block has been left
ResultsCollected == AllDone

\* lines 192-205: filter, sort, build final_data and write data.json
WriteReport ==
    /\ pc = "scan"
    /\ ResultsCollected
    /\ reports' = Append(reports, FinalData(results, run_no))
    /\ pc' = "done"
    /\ UNCHANGED <<variant, evalVars, aggVars, frozen, universe, run_no, all_tickers,
                   tickers_to_scan, next_task, worker, results>>

Next ==
    \/ StartRun
    \/ \E w \in Workers : TakeTask(w)
    \/ \E w \in Workers : FinishTask(w)
    \/ WriteReport

Spec == InitRun /\ [][Next]_vars

\* while some thread of the process can take a step, one of them is scheduled,
\* and every remote call returns or raises
Fairness == WF_vars(Next)

FairSpec == Spec /\ Fairness

\* the program is started again on the same frozen responses
RunNumbers == 1..2

NextRun ==
    /\ pc = "done"
    /\ run_no + 1 \in RunNumbers
    /\ run_no' = run_no + 1
    /\ pc' = "start"
    /\ all_tickers' = <<>>
    /\ tickers_to_scan' = <<>>
    /\ results' = <<>>
    /\ next_task' = 1
    /\ UNCHANGED <<variant, evalVars, aggVars, frozen, universe, worker, reports>>

NextRepeat ==
    \/ StartRun
    \/ \E w \in Workers : TakeTask(w)
    \/ \E w \in Workers : FinishTask(w)
    \/ WriteReport
    \/ NextRun

SpecRepeat == InitRun /\ [][NextRepeat]_vars

-----------------------------------------------------------------------------
(* Properties of the orchestrator *)

ScanPos(symbol) == CHOOSE p \in 1..Len(tickers_to_scan) : tickers_to_scan[p] = symbol

\* C5: the match list of the report is non-decreasing in pe, and records with
\* equal pe stand in the order of their tickers in the scanned sequence,
\* whatever order the pool threads finished in.
C5_SortedStable ==
    (pc = "done" /\ Len(reports) = 1)
        => LET data == reports[1].data
           IN  \A i, j \in 1..Len(data) :
                 i < j => /\ Le(data[i].pe, data[j].pe)
                          /\ FEq(data[i].pe, data[j].pe)
                               => ScanPos(data[i].symbol) < ScanPos(data[j].symbol)

\* C5 witness: a report with two records of equal pe whose evaluations
\* finished in the opposite order
C5_Witness ==
    /\ pc = "done" /\ Len(reports) = 1
    /\ LET data == reports[1].data
       IN  \E i, j \in 1..Len(data) :
             /\ i < j
             /\ FEq(data[i].pe, data[j].pe)
             /\ results[ScanPos(data[i].symbol)].rank
                  > results[ScanPos(data[j].symbol)].rank

NonAbsent == {i \in 1..Len(results) : results[i].value # <<>>}

C10_Safety ==
    /\ Len(reports) <= 1
    /\ pc = "done" => Len(reports) = 1
    /\ Len(reports) = 1 =>
         /\ pc = "done"
         /\ \A w \in Workers : worker[w] = 0
         /\ Len(results) = Min(Cardinality(universe), ScanCap)
         /\ \A i \in 1..Len(results) :
               /\ tickers_to_scan[i] = all_tickers[i]
               /\ results[i].state = "done"
               /\ results[i].evals = 1
               /\ frozen[tickers_to_scan[i]].info_access = "fail"
                    => results[i].value = <<>>
         /\ reports[1].count = Len(reports[1].data)
         /\ reports[1].count = Cardinality(NonAbsent)
         /\ {reports[1].data[k] : k \in 1..Len(reports[1].data)}
              = {results[i].value[1] : i \in NonAbsent}

\* C10: every run eventually writes exactly one report: each ticker of the
\* truncated universe is evaluated exactly once, a faulting evaluation counts
\* as absent, the report is built only after every evaluation has returned and
\* holds exactly the non-absent results, count being its length.
C10_EveryRunWritesOneReport == [] C10_Safety /\ <>(pc = "done")

\* C10 witness: a run over a universe larger than the scan cap, in which one
\* evaluation faulted and another matched, has written its report
C10_Witness ==
    /\ pc = "done" /\ Len(reports) = 1
    /\ Cardinality(universe) > ScanCap
    /\ \E i \in 1..Len(results) : frozen[tickers_to_scan[i]].info_access = "fail"
    /\ reports[1].count >= 1

====
